---- MODULE Spec2Model ----
(***************************************************************************)
(* Model of src/main.py: the momentum-gainer monitor.                      *)
(*                                                                         *)
(* main() awaits fetch_yesterday_closes(), which fills the global          *)
(* yesterday_close from one HTTP response, and then, when that map is not  *)
(* empty, awaits stream(), which connects, authenticates, subscribes and   *)
(* folds every received message into running_volume and gainers.           *)
(*                                                                         *)
(* Prices are integer numbers of cents; the percent change of a bar is the *)
(* exact rational (c - p) / p * 100, kept as a reduced fraction.  The      *)
(* source computes it in binary floating point; rounding of that           *)
(* arithmetic is outside this model.                                       *)
(***************************************************************************)
EXTENDS Integers, Sequences, FiniteSets, TLC

(* ---------------------------------------------------------------- bounds *)
\* messages received before the model stops drawing new ones
MaxMsgs == 3
\* events received, over all messages, before the model stops drawing new ones
MaxEvents == 3
\* entries in the "results" array of the reference response
MaxResults == 2
\* days after 2024-01-01 the process can be started on
MaxDays == 13

(* ------------------------------------------------------ program constants *)
\* main.py:69  pct_change >= 5
MIN_PCT_CHANGE == 5
\* main.py:70  running_volume[ticker] >= 2_000_000
MIN_VOLUME == 2000000
\* main.py:71  close_price >= 3
MIN_PRICE == 3

\* a dollar amount in the model's price unit (cents)
Cents(d) == 100 * d

(* ------------------------------------------------------------- dict helpers *)
EmptyDict == [k \in {} |-> 0]

\* d[k] = v on a Python dict
Put(d, k, v) == [x \in (DOMAIN d) \cup {k} |-> IF x = k THEN v ELSE d[x]]

\* d.get(k, default)
Get(d, k, default) == IF k \in DOMAIN d THEN d[k] ELSE default

(* ------------------------------------------------------------- arithmetic *)
Abs(n) == IF n < 0 THEN -n ELSE n

RECURSIVE GCD(_, _)
GCD(a, b) == IF b = 0 THEN a ELSE GCD(b, a % b)

\* the fraction n/d (d # 0) in lowest terms with a positive denominator
Rat(n, d) ==
    LET g == GCD(Abs(n), Abs(d))
        s == IF d < 0 THEN -1 ELSE 1
    IN  [num |-> (s * n) \div g, den |-> (s * d) \div g]

\* q >= k for a reduced fraction q and an integer k
RatGeq(q, k) == q.num >= k * q.den

\* main.py:67  ((close_price - prev_close) / prev_close) * 100, prev_close # 0
PctChange(close_price, prev_close) ==
    Rat((close_price - prev_close) * 100, prev_close)

\* main.py:77  f"{pct_change:.2f}": the fraction in hundredths, ties to even
Format2f(q) ==
    LET n    == q.num * 100
        fl   == n \div q.den
        rem2 == 2 * (n - fl * q.den)
    IN  IF rem2 < q.den THEN fl
        ELSE IF rem2 > q.den THEN fl + 1
        ELSE IF fl % 2 = 0 THEN fl ELSE fl + 1

(* ------------------------------------------------------------------ inputs *)
\* symbols the reference provider can return
RefSymbols == {"AAPL", "XYZ"}

\* a symbol the reference provider never returns
NewSymbol == "NEW"

\* the dates date.today() can return, as proleptic Gregorian ordinals
\* (date.toordinal(); 738886 is Monday 2024-01-01)
Days == { 738886 + k : k \in 0..MaxDays }

\* the result objects the reference response is built from: {"T": .., "c": ..}
ResultPool ==
    { [T |-> "AAPL", c |-> Cents(100)],
      [T |-> "XYZ",  c |-> Cents(2)],
      [T |-> "XYZ",  c |-> 0],
      [T |-> "XYZ",  c |-> -Cents(2)] }

RECURSIVE SeqsOfLen(_, _)
\* every sequence over S of length n
SeqsOfLen(S, n) ==
    IF n = 0 THEN { <<>> }
    ELSE { Append(q, x) : q \in SeqsOfLen(S, n - 1), x \in S }

\* every sequence over S of length at most n
SeqsUpTo(S, n) == UNION { SeqsOfLen(S, k) : k \in 0..n }

\* the JSON bodies of a 200 response: with or without a "results" array
JsonBodies ==
    { [status |-> "OK"] } \cup
    { [status |-> "OK", results |-> r] : r \in SeqsUpTo(ResultPool, MaxResults) }

\* what session.get(url) can yield: a response, or a transport-level exception
FetchOutcomes ==
    { [raises |-> TRUE,  status |-> 0,   json |-> [status |-> "ERROR"]] } \cup
    { [raises |-> FALSE, status |-> 500, json |-> [status |-> "ERROR"]] } \cup
    { [raises |-> FALSE, status |-> 200, json |-> j] : j \in JsonBodies }

\* minute-aggregate events with all three fields
Bars ==
    { [ev |-> "AM", T |-> "AAPL", c |-> c, v |-> v] :
          c \in {Cents(106), Cents(107)}, v \in {600000, 1500000} } \cup
    { [ev |-> "AM", T |-> "AAPL", c |-> Cents(104), v |-> 1500000] } \cup
    { [ev |-> "AM", T |-> "XYZ", c |-> c, v |-> 5000000] : c \in {250, Cents(3)} } \cup
    { [ev |-> "AM", T |-> NewSymbol, c |-> Cents(107), v |-> 5000000] }

\* events of another type, or of no type
OtherEvents ==
    { [ev |-> "status", message |-> "authenticated"],
      [T |-> "AAPL", c |-> Cents(107), v |-> 5000000] }

\* minute-aggregate events that lack the ticker, the close or the volume
BrokenBars ==
    { [ev |-> "AM", c |-> Cents(107), v |-> 5000000],
      [ev |-> "AM", T |-> "AAPL", v |-> 5000000],
      [ev |-> "AM", T |-> "AAPL", c |-> Cents(107)] }

Events == Bars \cup OtherEvents \cup BrokenBars

\* a stream message: text that json.loads rejects, or a JSON array of events;
\* by the number of events it holds
Messages ==
    [ n \in 0..MaxEvents |->
        (IF n = 0 THEN { [parses |-> FALSE, events |-> <<>>] } ELSE {}) \cup
        { [parses |-> TRUE, events |-> es] : es \in SeqsOfLen(Events, n) } ]

\* no request made, or its locals gone with the return of the fetch
NoFetch ==
    [ today |-> 0, day |-> 0,
      outcome |-> [raises |-> FALSE, status |-> 0, json |-> [status |-> "NONE"]] ]

(* ------------------------------------------------------------------- state *)
VARIABLES
    fetch,            \* the locals of the fetch that has just run: today's date, the
                      \* day put in the URL and what session.get yielded
    n_requests,       \* calls of session.get so far
    pc,               \* where main() is: start, fetched, connect, auth, subscribe,
                      \* recv, done (main returned), crashed (an exception left main)
    yesterday_close,  \* main.py:13
    running_volume,   \* main.py:14
    gainers,          \* main.py:15
    sent,             \* the connection opened and the messages sent on it, in order
    n_msgs,           \* messages the receive loop has taken from the stream
    n_events,         \* events those messages held
    exc,              \* the exception the latest step raised, or "none"
    out,              \* the lines the latest step printed, by kind
    alerts,           \* the alert lines among them, with their values
    applied,          \* the bars of the latest message that reached line 68
    skipped,          \* the tickers of its bars that had no reference (line 65 false)
    n_am,             \* the events of the latest message that carry "ev": "AM"
    trace             \* what the loop did with each event of the latest message it
                      \* got to, in order: ignored, skipped, applied or error

vars == << fetch, n_requests, pc, yesterday_close, running_volume, gainers, sent, n_msgs, n_events,
           exc, out, alerts, applied, skipped, n_am, trace >>

streamState == << running_volume, gainers, n_msgs, n_events, alerts, applied, skipped,
                 n_am, trace >>

(* --------------------------------------------------- get_last_trading_day *)
\* main.py:22  date.weekday(): Monday is 0, Sunday is 6
Weekday(d) == (d + 6) % 7

\* main.py:18-30 without the weekend cases
get_last_trading_day_yesterday(today) == today - 1

\* main.py:18-31.  The result stays a date; strftime('%Y-%m-%d') is not modelled.
get_last_trading_day(today) ==
    LET offset == IF Weekday(today) = 6 THEN 2
                  ELSE IF Weekday(today) = 0 THEN 3
                  ELSE 1
    IN  today - offset

(* ------------------------------------------------- fetch_yesterday_closes *)
\* main.py:45 mistaken for a write that keeps a symbol's first close
AbsorbFirstWinsPut(store, symbol, close) ==
    IF symbol \in DOMAIN store THEN store ELSE Put(store, symbol, close)

\* main.py:45  yesterday_close[stock["T"]] = stock["c"]
AbsorbPut(store, symbol, close) == Put(store, symbol, close)

RECURSIVE Absorb(_, _)
\* main.py:44-45  for stock in results: yesterday_close[stock["T"]] = stock["c"]
Absorb(store, results) ==
    IF results = <<>> THEN store
    ELSE Absorb(AbsorbPut(store, Head(results).T, Head(results).c), Tail(results))

\* main.py:44  data.get("results", [])
ResultsOf(json) == IF "results" \in DOMAIN json THEN json.results ELSE <<>>

\* main.py:33-46.  A transport-level failure of session.get is an exception that
\* nothing in main() catches.
Fetch ==
    /\ pc = "start"
    /\ n_requests' = n_requests + 1
    /\ \E today \in Days, o \in FetchOutcomes :
          /\ fetch' = [ today |-> today, day |-> get_last_trading_day(today),
                        outcome |-> o ]
          /\ IF o.raises
             THEN /\ pc' = "crashed"
                  /\ exc' = "ClientError"
                  /\ out' = << "fetching" >>
                  /\ UNCHANGED yesterday_close
             ELSE IF o.status # 200
             THEN /\ pc' = "fetched"
                  /\ exc' = "none"
                  /\ out' = << "fetching", "error_fetching" >>
                  /\ UNCHANGED yesterday_close
             ELSE /\ pc' = "fetched"
                  /\ exc' = "none"
                  /\ out' = << "fetching", "fetched" >>
                  /\ yesterday_close' = Absorb(yesterday_close, ResultsOf(o.json))
    /\ UNCHANGED << sent, streamState >>

(* -------------------------------------------------------------------- main *)
\* main.py:90  if yesterday_close:
GateOpenAlways(store) == TRUE

GateOpen(store) == DOMAIN store # {}

\* main.py:90-93
MainGate ==
    /\ pc = "fetched"
    /\ IF GateOpen(yesterday_close)
       THEN /\ pc' = "connect"
            /\ out' = <<>>
       ELSE /\ pc' = "done"
            /\ out' = << "shutting_down" >>
    /\ exc' = "none"
    /\ fetch' = NoFetch
    /\ UNCHANGED << n_requests, yesterday_close, sent, streamState >>

(* ------------------------------------------------------------------ stream *)
\* main.py:9-10  the key and the URL come from config, which is not in the source
API_KEY == "POLYGON_API_KEY"

WS_URL == "POLYGON_WS_URL"

\* main.py:50  websockets.connect(WS_URL)
ConnectStep == [action |-> "connect", params |-> WS_URL]

\* main.py:51  {"action": "auth", "params": API_KEY}
AuthMessage == [action |-> "auth", params |-> API_KEY]

\* main.py:52  {"action": "subscribe", "params": "AM.*"}
SubscribeMessage == [action |-> "subscribe", params |-> "AM.*"]

\* main.py:50  websockets.connect(WS_URL): outside the try block
Connect ==
    /\ pc = "connect"
    /\ \/ /\ pc' = "auth"
          /\ sent' = Append(sent, ConnectStep)
          /\ exc' = "none"
       \/ /\ pc' = "crashed"
          /\ exc' = "OSError"
          /\ UNCHANGED sent
    /\ out' = <<>>
    /\ UNCHANGED << fetch, n_requests, yesterday_close, streamState >>

\* main.py:51  ws.send(auth): outside the try block
Auth ==
    /\ pc = "auth"
    /\ \/ /\ pc' = "subscribe"
          /\ sent' = Append(sent, AuthMessage)
          /\ exc' = "none"
       \/ /\ pc' = "crashed"
          /\ exc' = "ConnectionClosedError"
          /\ UNCHANGED sent
    /\ out' = <<>>
    /\ UNCHANGED << fetch, n_requests, yesterday_close, streamState >>

\* main.py:52-53  ws.send(subscribe), print: outside the try block
Subscribe ==
    /\ pc = "subscribe"
    /\ \/ /\ pc' = "recv"
          /\ sent' = Append(sent, SubscribeMessage)
          /\ exc' = "none"
          /\ out' = << "connected" >>
       \/ /\ pc' = "crashed"
          /\ exc' = "ConnectionClosedError"
          /\ out' = <<>>
          /\ UNCHANGED sent
    /\ UNCHANGED << fetch, n_requests, yesterday_close, streamState >>

\* main.py:60 mistaken for event.get("ev", "AM")
EvOfDefaultAM(event) == IF "ev" \in DOMAIN event THEN event.ev ELSE "AM"

\* main.py:60  event.get("ev")
EvOf(event) == IF "ev" \in DOMAIN event THEN event.ev ELSE "None"

\* main.py:65  ticker in yesterday_close, with any default-valued lookup
HasReferenceDefaulted(store, ticker) == TRUE

\* main.py:65  ticker in yesterday_close
HasReference(store, ticker) == ticker \in DOMAIN store

\* main.py:68 mistaken for an assignment of the bar's own volume
AccumulateReplacing(volumes, ticker, volume) == Put(volumes, ticker, volume)

\* main.py:68  running_volume[ticker] = running_volume.get(ticker, 0) + volume
Accumulate(volumes, ticker, volume) ==
    Put(volumes, ticker, Get(volumes, ticker, 0) + volume)

\* main.py:69-71 without the price floor
QualifiesNoPriceFloor(pct_change, volume, close_price) ==
    /\ RatGeq(pct_change, MIN_PCT_CHANGE)
    /\ volume >= MIN_VOLUME

\* main.py:69-71
Qualifies(pct_change, volume, close_price) ==
    /\ RatGeq(pct_change, MIN_PCT_CHANGE)
    /\ volume >= MIN_VOLUME
    /\ close_price >= Cents(MIN_PRICE)

\* main.py:72 mistaken for a write that keeps an existing record
WriteGainerKeepFirst(sink, ticker, record) ==
    IF ticker \in DOMAIN sink THEN sink ELSE Put(sink, ticker, record)

\* main.py:72-76  gainers[ticker] = {...}
WriteGainer(sink, ticker, record) == Put(sink, ticker, record)

\* main.py:77-78 mistaken for an alert printed only on a ticker's first record
EmitAlertOnce(lines, sink, ticker, line) ==
    IF ticker \in DOMAIN sink THEN lines ELSE Append(lines, line)

\* main.py:77-78  print(ALERT ...): every qualifying bar prints, whatever gainers holds
EmitAlert(lines, sink, ticker, line) == Append(lines, line)

\* main.py:66 mistaken for a reference that follows the latest bar
ReferenceFollowsBar(store, ticker, close_price) == Put(store, ticker, close_price)

\* main.py:66-76: the branch reads yesterday_close and assigns nothing to it
ReferenceAfterBar(store, ticker, close_price) == store

\* the state one message's processing works on
LoopState(store, volumes, sink) ==
    [ yc |-> store, rv |-> volumes, g |-> sink, alerts |-> <<>>, applied |-> <<>>,
      skipped |-> {}, trace |-> <<>>, exc |-> "none" ]

\* main.py:60-78: one event of the inner for loop.  A raised exception leaves
\* the loops; what was done before it stays done.
ProcessEvent(s, event, store) ==
    IF s.exc # "none" THEN s
    ELSE IF EvOf(event) # "AM" THEN [s EXCEPT !.trace = Append(@, "ignored")]
    ELSE IF {"T", "c", "v"} \ DOMAIN event # {}
         THEN [s EXCEPT !.exc = "KeyError", !.trace = Append(@, "error")]
    ELSE LET ticker      == event.T
             close_price == event.c
             volume      == event.v
         IN  IF ~ HasReference(store, ticker)
             THEN [s EXCEPT !.skipped = @ \cup {ticker}, !.trace = Append(@, "skipped")]
             ELSE LET prev_close == Get(store, ticker, close_price)
                  IN  IF prev_close = 0
                      THEN [s EXCEPT !.exc = "ZeroDivisionError",
                                     !.trace = Append(@, "error")]
                      ELSE LET pct_change == PctChange(close_price, prev_close)
                               rv2        == Accumulate(s.rv, ticker, volume)
                               hit        == Qualifies(pct_change, rv2[ticker], close_price)
                               record     == [ price      |-> close_price,
                                               pct_change |-> pct_change,
                                               volume     |-> rv2[ticker] ]
                               line       == [ ticker |-> ticker,
                                               pct    |-> Format2f(pct_change),
                                               price  |-> close_price,
                                               volume |-> rv2[ticker] ]
                               bar        == [ T |-> ticker, c |-> close_price,
                                               v |-> volume, P |-> prev_close,
                                               V |-> rv2[ticker], alerted |-> hit ]
                           IN  [ s EXCEPT
                                   !.yc      = ReferenceAfterBar(@, ticker, close_price),
                                   !.rv      = rv2,
                                   !.g       = IF hit THEN WriteGainer(@, ticker, record) ELSE @,
                                   !.alerts  = IF hit THEN EmitAlert(@, s.g, ticker, line) ELSE @,
                                   !.applied = Append(@, bar),
                                   !.trace   = Append(@, "applied") ]

RECURSIVE ProcessEventsPastErrors(_, _, _)
\* main.py:59 with the exception handled inside the for loop: the next event runs
ProcessEventsPastErrors(s, events, store) ==
    IF events = <<>> THEN s
    ELSE LET r == ProcessEvent([s EXCEPT !.exc = "none"], Head(events), store)
         IN  ProcessEventsPastErrors(
                [r EXCEPT !.exc = IF s.exc # "none" THEN s.exc ELSE @],
                Tail(events), r.yc)

RECURSIVE ProcessEvents(_, _, _)
\* main.py:59  for event in data; each event sees the globals as the one before
\* left them
ProcessEvents(s, events, store) ==
    IF events = <<>> THEN s
    ELSE LET r == ProcessEvent(s, Head(events), store)
         IN  ProcessEvents(r, Tail(events), r.yc)

\* main.py:58-78: one message of the async for loop
ProcessMessage(msg, store, volumes, sink) ==
    IF ~ msg.parses
    THEN [LoopState(store, volumes, sink) EXCEPT !.exc = "JSONDecodeError"]
    ELSE ProcessEvents(LoopState(store, volumes, sink), msg.events, store)

\* where main() is once stream() has left its receive loop, had it reconnected
AfterLoopReconnect == "connect"

\* main.py:80-83, 91: the handlers fall out of stream(), and main() returns
AfterLoop == "done"

\* main.py:57-83: the loop takes one message.  Every exception raised while
\* processing it lands in "except Exception" (line 82), which is outside the loop.
Recv ==
    /\ pc = "recv"
    /\ n_msgs < MaxMsgs
    /\ \E n \in 0..(MaxEvents - n_events) : \E msg \in Messages[n] :
          /\ n_events' = n_events + n
          /\ n_am' = Cardinality({ i \in 1..n : "ev" \in DOMAIN msg.events[i]
                                                /\ msg.events[i].ev = "AM" })
          /\ LET s == ProcessMessage(msg, yesterday_close, running_volume, gainers)
                 alertLines == [i \in 1..Len(s.alerts) |-> "alert"]
             IN  /\ yesterday_close' = s.yc
                 /\ running_volume' = s.rv
                 /\ gainers' = s.g
                 /\ alerts' = s.alerts
                 /\ applied' = s.applied
                 /\ skipped' = s.skipped
                 /\ trace' = s.trace
                 /\ exc' = s.exc
                 /\ IF s.exc = "none"
                    THEN /\ pc' = "recv"
                         /\ out' = alertLines
                    ELSE /\ pc' = AfterLoop
                         /\ out' = Append(alertLines, "unexpected_error")
    /\ n_msgs' = n_msgs + 1
    /\ UNCHANGED << fetch, n_requests, sent >>

\* how the stream can end while the loop waits for a message
StreamEndings == {"ConnectionClosedOK", "ConnectionClosedError", "OSError"}

\* main.py:57, 80-83: a normal close ends the async for, an abrupt close is
\* caught at line 80, any other error at line 82
StreamEnd ==
    /\ pc = "recv"
    /\ \E ending \in StreamEndings :
          /\ exc' = IF ending = "ConnectionClosedOK" THEN "none" ELSE ending
          /\ out' = IF ending = "ConnectionClosedOK" THEN <<>>
                    ELSE IF ending = "ConnectionClosedError" THEN << "connection_lost" >>
                    ELSE << "unexpected_error" >>
    /\ pc' = AfterLoop
    /\ alerts' = <<>>
    /\ applied' = <<>>
    /\ skipped' = {}
    /\ trace' = <<>>
    /\ n_am' = 0
    /\ UNCHANGED << fetch, n_requests, yesterday_close, running_volume, gainers, sent,
                    n_msgs, n_events >>

(* ----------------------------------------------------------- specification *)
\* main.py:13-15, 98: the module's globals are empty when main() starts
Init ==
    /\ fetch = NoFetch
    /\ n_requests = 0
    /\ pc = "start"
    /\ yesterday_close = EmptyDict
    /\ running_volume = EmptyDict
    /\ gainers = EmptyDict
    /\ sent = <<>>
    /\ n_msgs = 0
    /\ n_events = 0
    /\ exc = "none"
    /\ out = <<>>
    /\ alerts = <<>>
    /\ applied = <<>>
    /\ skipped = {}
    /\ trace = <<>>
    /\ n_am = 0

Next ==
    \/ Fetch
    \/ MainGate
    \/ Connect
    \/ Auth
    \/ Subscribe
    \/ Recv
    \/ StreamEnd

Spec == Init /\ [][Next]_vars

(* ------------------------------------------------------------------ claims *)
Tickers == RefSymbols \cup {NewSymbol}

StreamingPcs == {"connect", "auth", "subscribe", "recv"}

\* the exceptions a message can raise while it is processed
MessageErrors == {"JSONDecodeError", "KeyError"}

\* the positions in the latest message's applied bars that belong to ticker t
BarsOf(bars, t) == { i \in 1..Len(bars) : bars[i].T = t }

RECURSIVE SumVolumes(_, _)
\* the volumes of the bars at the positions I, added up
SumVolumes(bars, I) ==
    IF I = {} THEN 0
    ELSE LET i == CHOOSE j \in I : TRUE
         IN  bars[i].v + SumVolumes(bars, I \ {i})

\* the rule of the specification, on integers: (C-P)/P*100 >= 5 for P > 0
RuleHolds(P, C, V) ==
    /\ (C - P) * 100 >= MIN_PCT_CHANGE * P
    /\ V >= MIN_VOLUME
    /\ C >= Cents(MIN_PRICE)

\* C1: a malformed message (unparsable text, or a minute-aggregate event without
\* its ticker, close or volume) does not end the receive loop.
C1_MalformedMessageKeepsLoop ==
    [][ (pc = "recv" /\ exc' \in MessageErrors) => pc' = "recv" ]_vars

\* C2: streaming is started only with a non-empty reference store; with an empty
\* store main() ends with the shutting-down line and no stream step was taken.
C2_StartupGate ==
    /\ (pc \in StreamingPcs \/ sent # <<>> \/ n_msgs > 0)
          => DOMAIN yesterday_close # {}
    /\ (pc = "done" /\ DOMAIN yesterday_close = {})
          => (out = << "shutting_down" >> /\ sent = <<>> /\ n_msgs = 0)

C2_Witness ==
    /\ pc = "done"
    /\ DOMAIN yesterday_close = {}
    /\ out = << "shutting_down" >>

\* C3: a processed bar of a ticker with a positive reference price raises an alert
\* and writes gainers exactly when percent change, cumulative volume and close
\* all meet their thresholds.
C3_QualifiesIffAllThree ==
    /\ \A i \in 1..Len(applied) :
          applied[i].P > 0 =>
             (applied[i].alerted <=> RuleHolds(applied[i].P, applied[i].c, applied[i].V))
    /\ Len(alerts) = Cardinality({ i \in 1..Len(applied) : applied[i].alerted })
    /\ \A i \in 1..Len(applied) :
          applied[i].alerted => applied[i].T \in DOMAIN gainers

\* a 25% gain on 5,000,000 volume at a close of 2.50 against a reference of 2
C3_Witness ==
    /\ \E i \in 1..Len(applied) :
          /\ applied[i].T = "XYZ" /\ applied[i].P = Cents(2) /\ applied[i].c = 250
          /\ applied[i].V = 5000000 /\ ~ applied[i].alerted
    /\ "XYZ" \notin DOMAIN gainers
    /\ alerts = <<>>

\* C4: a bar of a ticker whose reference price is <= 0 raises no division fault
\* and does not qualify.
C4_NonPositiveReferenceIsSkipped ==
    /\ exc # "ZeroDivisionError"
    /\ \A t \in DOMAIN yesterday_close :
          yesterday_close[t] <= 0 => t \notin DOMAIN gainers

\* C5: a ticker absent from yesterday_close has no gainers record, no
\* running_volume entry and no alert, whatever its bars.
C5_UnknownTickerInert ==
    \A t \in Tickers \ DOMAIN yesterday_close :
       /\ t \notin DOMAIN gainers
       /\ t \notin DOMAIN running_volume
       /\ \A i \in 1..Len(alerts) : alerts[i].ticker # t
       /\ BarsOf(applied, t) = {}

C5_Witness ==
    /\ pc = "recv"
    /\ NewSymbol \in skipped
    /\ n_msgs >= 2

\* C6: each message adds to running_volume[t] exactly the volumes of its bars of
\* t, each bar is tested on the cumulative volume through that bar, and the
\* 106/1,500,000 then 107/600,000 scenario against a reference of 100 alerts
\* only on the second bar, with pct_change 7 and volume 2,100,000.
C6_CumulativeVolume ==
    [][ (pc = "recv" /\ n_msgs' = n_msgs + 1) =>
          /\ \A t \in Tickers :
                Get(running_volume', t, 0) =
                   Get(running_volume, t, 0) + SumVolumes(applied', BarsOf(applied', t))
          /\ \A i \in 1..Len(applied') :
                LET t == applied'[i].T
                IN  /\ applied'[i].V =
                          Get(running_volume, t, 0)
                          + SumVolumes(applied', { j \in BarsOf(applied', t) : j <= i })
                    /\ applied'[i].alerted => applied'[i].V >= MIN_VOLUME
          /\ ( /\ Get(yesterday_close, "AAPL", 0) = Cents(100)
               /\ Len(applied') = 1
               /\ applied'[1].T = "AAPL" )
             => /\ ( Get(running_volume, "AAPL", 0) = 0
                     /\ applied'[1].c = Cents(106) /\ applied'[1].v = 1500000 )
                   => (alerts' = <<>> /\ "AAPL" \notin DOMAIN gainers')
                /\ ( Get(running_volume, "AAPL", 0) = 1500000
                     /\ applied'[1].c = Cents(107) /\ applied'[1].v = 600000 )
                   => /\ alerts' = << [ ticker |-> "AAPL", pct |-> 700,
                                        price |-> Cents(107), volume |-> 2100000 ] >>
                      /\ gainers'["AAPL"] = [ price |-> Cents(107),
                                              pct_change |-> [num |-> 7, den |-> 1],
                                              volume |-> 2100000 ]
      ]_vars

C6_Witness ==
    /\ Get(yesterday_close, "AAPL", 0) = Cents(100)
    /\ Len(applied) = 1
    /\ applied[1].T = "AAPL" /\ applied[1].c = Cents(107) /\ applied[1].v = 600000
    /\ applied[1].V = 2100000 /\ applied[1].alerted
    /\ Get(running_volume, "AAPL", 0) = 2100000
    /\ gainers["AAPL"].volume = 2100000

\* C7: no failure lets an exception leave main(): each ends in a return of
\* main() after a printed line.
C7_EveryFailureExitsCleanly ==
    /\ pc # "crashed"
    /\ exc # "none" => (pc = "done" /\ out # <<>>)

\* C8: an abrupt close, a transport error or any other exception in the receive
\* loop is printed and ends the loop; after that nothing reconnects, no message
\* is processed, running_volume and gainers stay as they are, and no step is left.
C8_LoopEndIsFinal ==
    /\ [][ (pc = "recv" /\ exc' # "none") =>
             /\ pc' = "done"
             /\ out' # <<>>
             /\ out'[Len(out')] \in {"connection_lost", "unexpected_error"}
             /\ (exc' = "ConnectionClosedError" <=> out'[Len(out')] = "connection_lost")
         ]_vars
    /\ [][ pc = "done" =>
             /\ pc' = "done"
             /\ UNCHANGED << running_volume, gainers, sent, n_msgs, n_events >>
         ]_vars
    /\ [](pc = "done" => ~ ENABLED Next)

C8_Witness ==
    /\ pc = "done"
    /\ exc = "ConnectionClosedError"
    /\ out = << "connection_lost" >>
    /\ n_msgs >= 1
    /\ running_volume # EmptyDict

\* C9: after a message, gainers[t] is the record of the latest qualifying bar of
\* t in it (price, percent change, cumulative volume), and the record of a ticker
\* with no qualifying bar in the message is as it was.
C9_LatestQualifyingRecord ==
    [][ (pc = "recv" /\ n_msgs' = n_msgs + 1) =>
          \A t \in Tickers :
             LET hits == { i \in BarsOf(applied', t) : applied'[i].alerted }
             IN  IF hits = {}
                 THEN /\ (t \in DOMAIN gainers') = (t \in DOMAIN gainers)
                      /\ t \in DOMAIN gainers => gainers'[t] = gainers[t]
                 ELSE LET last == CHOOSE i \in hits : \A j \in hits : j <= i
                      IN  /\ t \in DOMAIN gainers'
                          /\ gainers'[t].price = applied'[last].c
                          /\ gainers'[t].volume = applied'[last].V
                          /\ gainers'[t].pct_change =
                                PctChange(applied'[last].c, applied'[last].P)
      ]_vars

C9_Witness ==
    \E i, j \in 1..Len(applied) :
       /\ i < j
       /\ applied[i].T = applied[j].T
       /\ applied[i].alerted /\ applied[j].alerted
       /\ applied[i].V # applied[j].V
       /\ \A k \in (j + 1)..Len(applied) : applied[k].T # applied[j].T
       /\ gainers[applied[j].T].volume = applied[j].V

\* C10: no step lowers or removes an entry of running_volume.
C10_VolumeNeverDecreases ==
    [][ \A t \in DOMAIN running_volume :
           /\ t \in DOMAIN running_volume'
           /\ running_volume'[t] >= running_volume[t] ]_vars

C10_Witness ==
    \E i \in 1..Len(applied) :
       /\ applied[i].V - applied[i].v > applied[i].v
       /\ running_volume[applied[i].T] >= applied[i].V

\* C11: yesterday_close is written by the fetch alone, which is over before any
\* stream step: once main() is past the fetch no step adds, removes or changes
\* an entry.
C11_ReferenceStoreFrozen ==
    /\ [][ pc # "start" => yesterday_close' = yesterday_close ]_vars
    /\ []((sent # <<>> \/ n_msgs > 0) => pc # "start")

C11_Witness ==
    /\ n_msgs >= 2
    /\ Len(applied) >= 1
    /\ exc # "none"
    /\ Cardinality(DOMAIN yesterday_close) = 2

\* the positions of the latest message at which the loop ignored the event
Ignored(tr) == { i \in 1..Len(tr) : tr[i] = "ignored" }

\* C12: an event whose type is not "AM" is passed over: a message holding only
\* such events changes no map, prints nothing and leaves the loop running, and
\* in any message the loop goes on to the event after an ignored one.
C12_OtherEventsIgnored ==
    [][ (pc = "recv" /\ n_msgs' = n_msgs + 1) =>
          LET n == n_events' - n_events
          IN  /\ Cardinality(Ignored(trace')) <= n - n_am'
              /\ exc' = "none" =>
                    (Len(trace') = n /\ Cardinality(Ignored(trace')) = n - n_am')
              /\ \A i \in Ignored(trace') : i < n => Len(trace') > i
              /\ (n_am' = 0 /\ exc' # "JSONDecodeError") =>
                    /\ UNCHANGED << yesterday_close, running_volume, gainers >>
                    /\ alerts' = <<>> /\ out' = <<>>
                    /\ exc' = "none" /\ pc' = "recv"
                    /\ Ignored(trace') = 1..n
      ]_vars

C12_Witness ==
    /\ pc = "recv"
    /\ trace = << "ignored", "ignored", "applied" >>
    /\ n_am = 1
    /\ running_volume # EmptyDict

\* C13: the stream client connects, then sends auth, then sends the subscription
\* to "AM.*", each once and in that order, and takes no message before the
\* subscription was sent.
C13_HandshakeOrder ==
    /\ Len(sent) <= 3
    /\ Len(sent) >= 1 => sent[1].action = "connect"
    /\ Len(sent) >= 2 => (sent[2].action = "auth" /\ sent[2].params = API_KEY)
    /\ Len(sent) >= 3 => sent[3] = [action |-> "subscribe", params |-> "AM.*"]
    /\ pc \in {"start", "fetched", "connect"} => sent = <<>>
    /\ pc = "auth" => Len(sent) = 1
    /\ pc = "subscribe" => Len(sent) = 2
    /\ (pc = "recv" \/ n_msgs > 0 \/ trace # <<>>) => Len(sent) = 3

C13_Witness ==
    /\ pc = "recv"
    /\ n_msgs >= 1
    /\ applied # <<>>
    /\ Len(sent) = 3
    /\ sent[3].params = "AM.*"

\* the "results" array of the response of the fetch that has just run
FetchedResults ==
    IF "results" \in DOMAIN fetch.outcome.json THEN fetch.outcome.json.results ELSE <<>>

\* C14: after a 200 response yesterday_close holds exactly the returned symbols,
\* each with the close of its last result entry; after a non-200 response it is
\* empty and the error line was printed; session.get is called once.
C14_Population ==
    /\ n_requests <= 1
    /\ pc = "fetched" =>
          /\ n_requests = 1
          /\ IF fetch.outcome.status = 200
             THEN /\ DOMAIN yesterday_close =
                        { FetchedResults[i].T : i \in 1..Len(FetchedResults) }
                  /\ \A i \in 1..Len(FetchedResults) :
                        (\A j \in (i + 1)..Len(FetchedResults) :
                              FetchedResults[j].T # FetchedResults[i].T)
                        => yesterday_close[FetchedResults[i].T] = FetchedResults[i].c
                  /\ out = << "fetching", "fetched" >>
             ELSE /\ yesterday_close = EmptyDict
                  /\ out = << "fetching", "error_fetching" >>
    /\ pc # "start" => n_requests = 1

C14_Witness ==
    /\ pc = "fetched"
    /\ fetch.outcome.status = 200
    /\ Len(FetchedResults) = 2
    /\ FetchedResults[1].T = FetchedResults[2].T
    /\ FetchedResults[1].c # FetchedResults[2].c
    /\ yesterday_close[FetchedResults[2].T] = FetchedResults[2].c

\* Monday to Friday, on the ordinal itself (ordinal 1 is a Monday)
IsWeekday(d) == d % 7 \in 1..5

\* C15: the day requested is 2 days before a Sunday, 3 days before a Monday and
\* the day before any other day: earlier than today, a Monday-to-Friday day,
\* with no Monday-to-Friday day strictly between it and today.
C15_LastTradingDay ==
    fetch.today # 0 =>
       /\ fetch.day = fetch.today - (IF fetch.today % 7 = 0 THEN 2
                                     ELSE IF fetch.today % 7 = 1 THEN 3
                                     ELSE 1)
       /\ fetch.day < fetch.today
       /\ IsWeekday(fetch.day)
       /\ \A d \in (fetch.day + 1)..(fetch.today - 1) : ~ IsWeekday(d)

C15_Witness ==
    /\ pc = "fetched"
    /\ fetch.today % 7 = 1
    /\ fetch.day = fetch.today - 3

IsAlerted(bar) == bar.alerted

\* the bars of the latest message that qualified, in order
HitBars(bars) == SelectSeq(bars, IsAlerted)

\* C16: the latest message printed one alert per qualifying bar, in order, none
\* left out for a ticker that already has a record; each alert carries the bar's
\* ticker, close, cumulative volume and its percent change to two decimals, and
\* the last alert of a ticker agrees with the record gainers holds.
C16_AlertPerQualifyingBar ==
    LET hitBars == HitBars(applied)
    IN  /\ Len(alerts) = Len(hitBars)
        /\ Cardinality({ i \in 1..Len(out) : out[i] = "alert" }) = Len(hitBars)
        /\ \A k \in 1..Len(hitBars) :
              LET a == alerts[k]
                  b == hitBars[k]
              IN  /\ a.ticker = b.T
                  /\ a.price = b.c
                  /\ a.volume = b.V
                  /\ 2 * Abs(a.pct * b.P - (b.c - b.P) * 10000) <= Abs(b.P)
                  /\ b.T \in DOMAIN gainers
                  /\ (\A j \in (k + 1)..Len(hitBars) : hitBars[j].T # b.T) =>
                        /\ gainers[b.T].price = a.price
                        /\ gainers[b.T].volume = a.volume
                        /\ a.pct = Format2f(gainers[b.T].pct_change)

C16_Witness ==
    /\ Len(alerts) = 2
    /\ alerts[1].ticker = alerts[2].ticker
    /\ alerts[1].volume < alerts[2].volume
    /\ gainers[alerts[2].ticker].volume = alerts[2].volume

\* C17: every gainers record meets the rule against its ticker's reference price
\* and is no larger in volume than running_volume; a record is never removed,
\* and bars of its ticker that do not qualify leave it as it is while
\* running_volume still grows.
C17_RecordsStayValid ==
    /\ [](\A t \in DOMAIN gainers :
             /\ t \in DOMAIN yesterday_close
             /\ t \in DOMAIN running_volume
             /\ yesterday_close[t] > 0
             /\ gainers[t].price >= Cents(MIN_PRICE)
             /\ gainers[t].volume >= MIN_VOLUME
             /\ gainers[t].pct_change.num * yesterday_close[t] =
                   gainers[t].pct_change.den * (gainers[t].price - yesterday_close[t]) * 100
             /\ gainers[t].pct_change.num >= MIN_PCT_CHANGE * gainers[t].pct_change.den
             /\ gainers[t].volume <= running_volume[t])
    /\ [][ \A t \in DOMAIN gainers :
              /\ t \in DOMAIN gainers'
              /\ ( /\ BarsOf(applied', t) # {}
                   /\ \A i \in BarsOf(applied', t) : ~ applied'[i].alerted
                   /\ n_msgs' = n_msgs + 1 )
                 => /\ gainers'[t] = gainers[t]
                    /\ running_volume'[t] > running_volume[t]
         ]_vars

C17_Witness ==
    \E t \in DOMAIN gainers :
       /\ BarsOf(applied, t) # {}
       /\ \A i \in BarsOf(applied, t) : ~ applied[i].alerted
       /\ gainers[t].volume < running_volume[t]

\* C18: the tickers of gainers are among those of running_volume, which are
\* among those of yesterday_close; both maps are empty until a message is taken.
C18_NestedKeys ==
    /\ DOMAIN gainers \subseteq DOMAIN running_volume
    /\ DOMAIN running_volume \subseteq DOMAIN yesterday_close
    /\ (n_msgs = 0 \/ pc \in {"start", "fetched", "connect", "auth", "subscribe"})
          => (running_volume = EmptyDict /\ gainers = EmptyDict)

C18_Witness ==
    /\ Cardinality(DOMAIN gainers) = 1
    /\ Cardinality(DOMAIN running_volume) = 2
    /\ Cardinality(DOMAIN yesterday_close) = 2

\* C19: when an event of a message raises (a missing field, a zero reference
\* price), what the events before it did stays done, the raising event changes
\* nothing, and it is the last event the loop gets to.
C19_NoRollbackNoResume ==
    [][ (pc = "recv" /\ n_msgs' = n_msgs + 1) =>
          LET n == n_events' - n_events
              k == Len(trace')
          IN  /\ \A i \in 1..k : trace'[i] = "error" => i = k
              /\ Cardinality({ i \in 1..k : trace'[i] = "applied" }) = Len(applied')
              /\ exc' \in {"KeyError", "ZeroDivisionError"} =>
                    /\ 1 <= k /\ k <= n
                    /\ trace'[k] = "error"
                    /\ pc' = "done"
                    /\ \A t \in Tickers :
                          Get(running_volume', t, 0) =
                             Get(running_volume, t, 0)
                             + SumVolumes(applied', BarsOf(applied', t))
                    /\ \A i \in 1..Len(applied') :
                          applied'[i].alerted => applied'[i].T \in DOMAIN gainers'
                    /\ Len(alerts') = Len(HitBars(applied'))
                    /\ out' = Append([i \in 1..Len(alerts') |-> "alert"], "unexpected_error")
              /\ \A t \in DOMAIN yesterday_close' :
                    yesterday_close'[t] = 0 => t \notin DOMAIN running_volume'
      ]_vars

C19_Witness ==
    /\ pc = "done"
    /\ exc = "ZeroDivisionError"
    /\ n_msgs = 1
    /\ n_events = 3
    /\ trace = << "applied", "error" >>
    /\ Len(applied) = 1
    /\ running_volume[applied[1].T] = applied[1].v

====
